---- MODULE Spec2Model ----
(***************************************************************************)
(* The realtime connection manager of static/js/websockets.js              *)
(* (class TIMBWebSocket): named WebSocket connections with heartbeat,      *)
(* reconnect with backoff, message dispatch and document-level             *)
(* subscriptions.                                                          *)
(*                                                                         *)
(* The manager's methods are operators on a record of the manager's        *)
(* fields (so that connect can call disconnect, onclose can call           *)
(* scheduleReconnect, ...); every action of Next is one browser task: a    *)
(* call of the public API, a transport event, or a timer callback.         *)
(*                                                                         *)
(* The WebSocket objects follow the WHATWG WebSocket interface:            *)
(*   - new WebSocket(url) throws on a malformed url, else the object       *)
(*     starts CONNECTING;                                                  *)
(*   - close() on a CONNECTING socket fails the connection: readyState     *)
(*     becomes CLOSING and the socket later gets error, then close with    *)
(*     code 1006; close() on an OPEN socket starts the closing handshake   *)
(*     (CLOSING), which ends in close with the code of the handshake;      *)
(*     close() on a CLOSING or CLOSED socket does nothing;                 *)
(*   - a connection that fails gets error and then close (code 1006) in    *)
(*     one task; a close frame of the server moves the socket to CLOSING   *)
(*     and the close event follows.                                        *)
(***************************************************************************)
EXTENDS Integers, Sequences, FiniteSets, Bags, TLC

\* ---------------------------------------------------------------- bounds
MaxWs == 2          \* WebSocket objects of one name alive at once
MaxTimers == 2      \* setInterval timers running at once
MaxTimeouts == 2    \* reconnect setTimeout callbacks pending at once
MaxCalls == 1       \* connect() and disconnect() calls of the page's code after construction
MaxSubs == 2        \* subscribe() calls
MaxWrappers == 2    \* functions made by throttle(func, limit)
MaxLimitTimers == 2 \* limit timers of one throttled function pending at once

\* ------------------------------------------------------ program constants
maxReconnectAttempts == 5
reconnectDelay == 3000
IntentionalCode == 1000

Names == {"realtime", "merchant"}
NoEntry == -1       \* Map.get(name) === undefined
Absent == "absent"  \* no entry in messageHandlers

\* The handler objects passed to connect: those of connectToRealtimeData,
\* those of connectToMerchantData, and {}.
HandlerKinds == {"realtime", "merchant", "none"}

\* The handler objects a caller passes for a name: the feed's own
\* (connectToRealtimeData, connectToMerchantData), or {}.
FeedHandlers(name) == {name}
AnyHandlers(name) == {name, "none"}

Slots(h) ==
    CASE h = "realtime" -> {"onMessage", "onConnect", "onDisconnect", "onError"}
      [] h = "merchant" -> {"onMessage", "onConnect", "onDisconnect"}
      [] OTHER -> {}

Urls == {"valid", "malformed"}
Codes == {1000, 1001}           \* codes a close frame of the server carries
AbnormalCode == 1006            \* close event of a failed connection

\* Wire frames and JSON
Types == {"pong", "fraud_alert", "other"}
Payloads == {"p1"}
InFrames == {<<"text">>} \cup {<<"json", t, p>> : t \in Types, p \in Payloads}

\* JSON.parse that never throws.
JSONparse_lenient(frame) ==
    IF frame[1] = "json"
    THEN [ok |-> TRUE, type |-> frame[2], payload |-> frame[3]]
    ELSE [ok |-> TRUE, type |-> "other", payload |-> ""]

JSONparse(frame) ==
    IF frame[1] = "json"
    THEN [ok |-> TRUE, type |-> frame[2], payload |-> frame[3]]
    ELSE [ok |-> FALSE, type |-> "", payload |-> ""]

JSONstringify(data) == <<"json", data.type, data.payload>>

PingData == [type |-> "ping", payload |-> ""]
SendData == {[type |-> "order", payload |-> "p1"]}
SubTypes == {"pong", "fraud_alert"}

\* ------------------------------------------------------------------ state
VARIABLES
    ws,                 \* the WebSocket objects: id -> [name, state, code, h, by, opened]
    connections,        \* this.connections: name -> id (0: no entry)
    messageHandlers,    \* this.messageHandlers: name -> handlers (Absent: no entry)
    reconnectAttempts,  \* this.reconnectAttempts: name -> count (NoEntry: no entry)
    heartbeatTimers,    \* this.heartbeatTimers: name -> the timer held, named by the ws its callback captured (0: no entry)
    intervals,          \* running setInterval timers: ws -> how many run with a callback that captured it
    timeouts,           \* pending reconnect setTimeout callbacks: bag of [name, attempts, h]
    status,             \* the status indicator: [cls, text, n]
    hidden,             \* document.hidden
    subs,               \* 'websocket-message' listeners added by subscribe, in order: their eventType
    pendingClose,       \* the ws whose error event was fired and whose close event follows in the same task (0: none)
    failures,           \* per name: close events (code not 1000) of transports the manager had not closed, in a row since the last open or caller call
    isMerchant,         \* isMerchant() of the page
    calls,              \* connect() and disconnect() calls the page's code has made
    unloading,          \* beforeunload has been dispatched to the window
    inThrottle,         \* throttle: the inThrottle variable of each closure
    limitTimers,        \* throttle: pending setTimeout(() => inThrottle = false, limit) of each closure
    window,             \* throttle: func was invoked and no limit timer of the closure has fired since
    log                 \* what the last task did, in order

vars == <<ws, connections, messageHandlers, reconnectAttempts, heartbeatTimers,
          intervals, timeouts, status, hidden, subs, pendingClose, failures,
          isMerchant, calls, unloading, inThrottle, limitTimers, window, log>>

WsIds == 1..(MaxWs * Cardinality(Names))

FreeWs == [name |-> "", state |-> "FREE", code |-> 0, h |-> "none", by |-> "", opened |-> FALSE]

Ev(ev, name, w, arg, aux, num) ==
    [ev |-> ev, name |-> name, ws |-> w, arg |-> arg, aux |-> aux, num |-> num]

\* The manager's fields as one record, threaded through the methods.
\* ok = FALSE: the task needs more objects than the bounds allow.
Cur ==
    [ws |-> ws, connections |-> connections, messageHandlers |-> messageHandlers,
     reconnectAttempts |-> reconnectAttempts, heartbeatTimers |-> heartbeatTimers,
     intervals |-> intervals, timeouts |-> timeouts, status |-> status,
     log |-> <<>>, ok |-> TRUE]

Emit(S, e) == [S EXCEPT !.log = Append(@, e)]

Min(s) == CHOOSE x \in s : \A y \in s : x <= y

Pow2(k) == 2 ^ k

\* ---------------------------------------------------------------- methods

\* updateStatus(status, message); n is the attempt number shown in the
\* "Reconnecting... (n/max)" message, 0 in the other messages.
updateStatus(S, cls, text, n) ==
    [S EXCEPT !.status = [cls |-> cls, text |-> text, n |-> n]]

\* What the handlers passed by connectToRealtimeData do besides logging.
HandlerEffect(S, h, slot) ==
    IF h # "realtime" THEN S
    ELSE CASE slot = "onConnect" -> updateStatus(S, "connected", "Live Data Connected", 0)
           [] slot = "onDisconnect" -> updateStatus(S, "disconnected", "Connection Lost", 0)
           [] slot = "onError" -> updateStatus(S, "disconnected", "Connection Error", 0)
           [] OTHER -> S

\* if (handlers.slot) handlers.slot(...)
Invoke(S, h, slot, name, w, arg, aux) ==
    IF slot \in Slots(h)
    THEN HandlerEffect(Emit(S, Ev("handler", name, w, slot, aux, 0)), h, slot)
    ELSE S

\* The smallest identity no live object has; 0 when the bound on the
\* objects of the name is exhausted.
NewWs(S, name) ==
    LET free == {w \in WsIds : S.ws[w].state = "FREE"}
        alive == {w \in WsIds : S.ws[w].state # "FREE" /\ S.ws[w].name = name}
    IN IF Cardinality(alive) >= MaxWs THEN 0 ELSE Min(free)

\* Timers whose callbacks captured the same ws (and so the same name) act
\* alike, so a timer is known by that ws and the running ones are counted.
RECURSIVE SumOver(_, _)
SumOver(f, set) ==
    IF set = {} THEN 0
    ELSE LET x == Min(set) IN f[x] + SumOver(f, set \ {x})

Running(S) == SumOver(S.intervals, WsIds)

\* WebSocket.close(code, reason) on object r.
WsCloseCall(r, who) ==
    CASE r.state = "CONNECTING" -> [r EXCEPT !.state = "CLOSING", !.code = AbnormalCode, !.by = who]
      [] r.state = "OPEN" -> [r EXCEPT !.state = "CLOSING", !.code = IntentionalCode, !.by = who]
      [] OTHER -> r

\* stopHeartbeat that clears the timers of every name.
stopHeartbeat_all(S, name) ==
    [S EXCEPT !.intervals = [w \in WsIds |->
                                IF \E n \in Names : S.heartbeatTimers[n] = w THEN @[w] - 1 ELSE @[w]],
              !.heartbeatTimers = [n \in Names |-> 0]]

stopHeartbeat(S, name) ==
    LET timer == S.heartbeatTimers[name]
    IN IF timer # 0
       THEN Emit([S EXCEPT !.intervals[timer] = @ - 1, !.heartbeatTimers[name] = 0],
                 Ev("clearInterval", name, timer, "", "", 0))
       ELSE S

startHeartbeat(S, name) ==
    LET w == S.connections[name]
    IN IF w = 0 THEN S
       ELSE IF Running(S) >= MaxTimers THEN [S EXCEPT !.ok = FALSE]
       ELSE Emit([S EXCEPT !.intervals[w] = @ + 1, !.heartbeatTimers[name] = w],
                 Ev("setInterval", name, w, "", "", 0))

\* who: "caller" when the page's code called disconnect(name), "connect"
\* when connect() tore the previous connection down, "unload" when the
\* 'beforeunload' listener did.
\* disconnect that leaves the entry of the handler registry.
disconnectBy_keepsHandlers(S, name, who) ==
    LET w == S.connections[name]
    IN IF w # 0
       THEN LET S1 == stopHeartbeat(S, name)
            IN Emit([S1 EXCEPT !.ws[w] = WsCloseCall(@, who),
                               !.connections[name] = 0,
                               !.reconnectAttempts[name] = NoEntry],
                    Ev("ws.close", name, w, S.ws[w].state, "", IntentionalCode))
       ELSE S

disconnectBy(S, name, who) ==
    LET w == S.connections[name]
    IN IF w # 0
       THEN LET S1 == stopHeartbeat(S, name)
            IN Emit([S1 EXCEPT !.ws[w] = WsCloseCall(@, who),
                               !.connections[name] = 0,
                               !.messageHandlers[name] = Absent,
                               !.reconnectAttempts[name] = NoEntry],
                    Ev("ws.close", name, w, S.ws[w].state, "", IntentionalCode))
       ELSE S

disconnect(S, name) == disconnectBy(S, name, "caller")

\* A catch block that enters the retry loop.
connectCatch_retries(S, name, h) ==
    LET S1 == Invoke(updateStatus(S, "disconnected", "Connection Failed", 0),
                     h, "onError", name, 0, "", "")
    IN [S1 EXCEPT !.timeouts = @ (+) SetToBag({[name |-> name, attempts |-> 0, h |-> h]})]

\* The catch block of connect.
connectCatch(S, name, h) ==
    Invoke(updateStatus(S, "disconnected", "Connection Failed", 0),
           h, "onError", name, 0, "", "")

\* connect without the teardown of the connection already registered.
connect_noTeardown(S, name, url, h) ==
    LET S1 == updateStatus(S, "connecting", "Connecting...", 0)
        w == NewWs(S1, name)
    IN IF url = "malformed" THEN connectCatch(S1, name, h)
       ELSE IF w = 0 THEN [S1 EXCEPT !.ok = FALSE]
       ELSE Emit([S1 EXCEPT !.ws[w] = [name |-> name, state |-> "CONNECTING",
                                       code |-> 0, h |-> h, by |-> "", opened |-> FALSE],
                            !.connections[name] = w,
                            !.messageHandlers[name] = h],
                 Ev("new WebSocket", name, w, "", "", 0))

connect(S, name, url, h) ==
    LET S0 == IF S.connections[name] # 0 THEN disconnectBy(S, name, "connect") ELSE S
        S1 == updateStatus(S0, "connecting", "Connecting...", 0)
        w == NewWs(S1, name)
    IN IF url = "malformed" THEN connectCatch(S1, name, h)
       ELSE IF w = 0 THEN [S1 EXCEPT !.ok = FALSE]
       ELSE Emit([S1 EXCEPT !.ws[w] = [name |-> name, state |-> "CONNECTING",
                                       code |-> 0, h |-> h, by |-> "", opened |-> FALSE],
                            !.connections[name] = w,
                            !.messageHandlers[name] = h],
                 Ev("new WebSocket", name, w, "", "", 0))

\* this.reconnectAttempts.get(name) || 0
AttemptsOf(S, name) ==
    IF S.reconnectAttempts[name] = NoEntry THEN 0 ELSE S.reconnectAttempts[name]

\* scheduleReconnect that arms no timer.
scheduleReconnect_noTimer(S, name, h) ==
    LET attempts == AttemptsOf(S, name)
    IN IF attempts >= maxReconnectAttempts
       THEN updateStatus(S, "disconnected", "Connection Failed", 0)
       ELSE updateStatus(S, "connecting", "Reconnecting...", attempts + 1)

\* scheduleReconnect with the base delay whatever the counter.
scheduleReconnect_flatDelay(S, name, h) ==
    LET attempts == AttemptsOf(S, name)
        delay == reconnectDelay
    IN IF attempts >= maxReconnectAttempts
       THEN updateStatus(S, "disconnected", "Connection Failed", 0)
       ELSE IF BagCardinality(S.timeouts) >= MaxTimeouts THEN [S EXCEPT !.ok = FALSE]
       ELSE Emit([updateStatus(S, "connecting", "Reconnecting...", attempts + 1)
                    EXCEPT !.timeouts = @ (+) SetToBag({[name |-> name, attempts |-> attempts, h |-> h]})],
                 Ev("setTimeout", name, 0, "", "", delay))

scheduleReconnect(S, name, h) ==
    LET attempts == AttemptsOf(S, name)
        delay == reconnectDelay * Pow2(attempts)
    IN IF attempts >= maxReconnectAttempts
       THEN updateStatus(S, "disconnected", "Connection Failed", 0)
       ELSE IF BagCardinality(S.timeouts) >= MaxTimeouts THEN [S EXCEPT !.ok = FALSE]
       ELSE Emit([updateStatus(S, "connecting", "Reconnecting...", attempts + 1)
                    EXCEPT !.timeouts = @ (+) SetToBag({[name |-> name, attempts |-> attempts, h |-> h]})],
                 Ev("setTimeout", name, 0, "", "", delay))

\* The callback scheduleReconnect gives setTimeout.
reconnectCallback(S, r) ==
    connect(Emit([S EXCEPT !.reconnectAttempts[r.name] = r.attempts + 1],
                 Ev("reconnectAttempts.set", r.name, 0, "", "", r.attempts + 1)),
            r.name, "valid", r.h)

pauseHeartbeats(S) ==
    [S EXCEPT !.intervals = [w \in WsIds |->
                                IF \E n \in Names : S.heartbeatTimers[n] = w THEN @[w] - 1 ELSE @[w]],
              !.heartbeatTimers = [n \in Names |-> 0]]

RECURSIVE resumeOver(_, _)
resumeOver(S, names) ==
    IF names = <<>> THEN S
    ELSE LET name == Head(names)
             w == S.connections[name]
         IN resumeOver(IF w # 0 /\ S.ws[w].state = "OPEN" THEN startHeartbeat(S, name) ELSE S,
                       Tail(names))

\* ---------------------------------------------------------------- tasks

\* A WebSocket object nothing refers to any more (closed, its close event
\* delivered, not in the registry, captured by no running interval) gives
\* its identity back.
Collect(wsF, conns, ivs, pc) ==
    [w \in WsIds |->
        IF /\ wsF[w].state = "CLOSED"
           /\ w # pc
           /\ \A n \in Names : conns[n] # w
           /\ ivs[w] = 0
        THEN FreeWs ELSE wsF[w]]

\* The task ends: the fields of S become the manager's state.
Commit(S, pc) ==
    \E T \in {S} :
        /\ T.ok
        /\ ws' = Collect(T.ws, T.connections, T.intervals, pc)
        /\ connections' = T.connections
        /\ messageHandlers' = T.messageHandlers
        /\ reconnectAttempts' = T.reconnectAttempts
        /\ heartbeatTimers' = T.heartbeatTimers
        /\ intervals' = T.intervals
        /\ timeouts' = T.timeouts
        /\ status' = T.status
        /\ log' = T.log
        /\ pendingClose' = pc
        /\ UNCHANGED <<inThrottle, limitTimers, window>>

Begin(e) == Emit(Cur, e)

EmptyManager ==
    [ws |-> [w \in WsIds |-> FreeWs],
     connections |-> [n \in Names |-> 0],
     messageHandlers |-> [n \in Names |-> Absent],
     reconnectAttempts |-> [n \in Names |-> NoEntry],
     heartbeatTimers |-> [n \in Names |-> 0],
     intervals |-> [w \in WsIds |-> 0],
     timeouts |-> EmptyBag,
     status |-> [cls |-> "", text |-> "Connecting...", n |-> 0],
     log |-> <<>>, ok |-> TRUE]

connectToRealtimeData(S) == connect(S, "realtime", "valid", "realtime")

connectToMerchantData(S) == connect(S, "merchant", "valid", "merchant")

\* constructor -> init(): the realtime feed, and the merchant feed when
\* isMerchant() holds for the page.
init(merchant) ==
    LET S1 == connectToRealtimeData(EmptyManager)
    IN IF merchant THEN connectToMerchantData(S1) ELSE S1

\* The names the page's code uses: connectToMerchantData is for merchant
\* pages only.
PageNames == IF isMerchant THEN Names ELSE {"realtime"}

InitPage(merchant) ==
        LET S == init(merchant)
        IN /\ isMerchant = merchant
           /\ calls = 0
           /\ unloading = FALSE
           /\ inThrottle = [t \in 1..MaxWrappers |-> FALSE]
           /\ limitTimers = [t \in 1..MaxWrappers |-> 0]
           /\ window = [t \in 1..MaxWrappers |-> FALSE]
           /\ ws = S.ws
           /\ connections = S.connections
           /\ messageHandlers = S.messageHandlers
           /\ reconnectAttempts = S.reconnectAttempts
           /\ heartbeatTimers = S.heartbeatTimers
           /\ intervals = S.intervals
           /\ timeouts = S.timeouts
           /\ status = S.status
           /\ log = S.log
           /\ hidden = FALSE
           /\ subs = <<>>
           /\ pendingClose = 0
           /\ failures = [n \in Names |-> 0]

Init == InitPage(FALSE)

\* --- calls of the public API

Connect(name, url, h) ==
    /\ pendingClose = 0
    /\ Commit(connect(Begin(Ev("connect", name, 0, url, h, 0)), name, url, h), 0)
    /\ calls < MaxCalls
    /\ calls' = calls + 1
    /\ UNCHANGED <<hidden, subs, isMerchant, unloading>>

Disconnect(name) ==
    /\ pendingClose = 0
    /\ Commit(disconnect(Begin(Ev("disconnect", name, connections[name], "", "", 0)), name), 0)
    /\ calls < MaxCalls
    /\ calls' = calls + 1
    /\ UNCHANGED <<hidden, subs, isMerchant, unloading>>

\* send without the readyState test.
send_noStateTest(S, name, data) ==
    LET w == S.connections[name]
    IN IF w # 0
       THEN Emit(Emit(S, Ev("ws.send", name, w, JSONstringify(data)[2], JSONstringify(data)[3], 0)),
                 Ev("return", name, w, "true", "", 0))
       ELSE Emit(S, Ev("return", name, w, "false", "", 0))

send(S, name, data) ==
    LET w == S.connections[name]
    IN IF w # 0 /\ S.ws[w].state = "OPEN"
       THEN Emit(Emit(S, Ev("ws.send", name, w, JSONstringify(data)[2], JSONstringify(data)[3], 0)),
                 Ev("return", name, w, "true", "", 0))
       ELSE Emit(S, Ev("return", name, w, "false", "", 0))

Send(name, data) ==
    /\ pendingClose = 0
    /\ Commit(send(Begin(Ev("send", name, 0, data.type, data.payload, 0)), name, data), 0)
    /\ UNCHANGED <<hidden, subs, isMerchant, calls, unloading>>

subscribe(list, eventType) == Append(list, eventType)

Subscribe(eventType) ==
    /\ pendingClose = 0
    /\ Len(subs) < MaxSubs
    /\ subs' = subscribe(subs, eventType)
    /\ Commit(Begin(Ev("subscribe", "", 0, eventType, "", Len(subs) + 1)), 0)
    /\ UNCHANGED <<hidden, isMerchant, calls, unloading>>

\* --- transport events

\* onopen that leaves the attempt counter alone.
onopen_noReset(S, w) ==
    LET name == S.ws[w].name
    IN Invoke(startHeartbeat(S, name), S.ws[w].h, "onConnect", name, w, "", "")

onopen(S, w) ==
    LET name == S.ws[w].name
        S1 == [S EXCEPT !.reconnectAttempts[name] = 0]
    IN Invoke(startHeartbeat(S1, name), S.ws[w].h, "onConnect", name, w, "", "")

OnOpen(w) ==
    /\ pendingClose = 0
    /\ ws[w].state = "CONNECTING"
    /\ Commit(onopen([Begin(Ev("open", ws[w].name, w, "", "", 0))
                        EXCEPT !.ws[w].state = "OPEN", !.ws[w].opened = TRUE], w), 0)
    /\ UNCHANGED <<hidden, subs, isMerchant, calls, unloading>>

\* What throws while a message is dispatched: nothing, the connection's
\* onMessage handler, or the callbacks given to subscribe.
Throwers == {"none", "onMessage", "callback"}

\* The listener subscribe(eventType, callback) adds to the document:
\* listener i calls its callback when the type matches. An exception of a
\* listener is reported by dispatchEvent, which goes on to the next one.
listener(S, list, i, source, data, w, thr) ==
    IF data.type = list[i]
    THEN LET S1 == Emit(S, Ev("callback", source, w, data.type, data.payload, i))
         IN IF thr = "callback" THEN Emit(S1, Ev("reported", source, w, "", "", i)) ELSE S1
    ELSE S

\* emitEvent(source, data): document.dispatchEvent runs the listeners in
\* the order they were added.
RECURSIVE dispatchFrom(_, _, _, _, _, _, _)
dispatchFrom(S, list, i, source, data, w, thr) ==
    IF i > Len(list) THEN S
    ELSE dispatchFrom(listener(S, list, i, source, data, w, thr), list, i + 1, source, data, w, thr)

emitEvent(S, list, source, data, w, thr) == dispatchFrom(S, list, 1, source, data, w, thr)

\* onmessage without the test for the heartbeat response.
onmessage_noPongTest(S, list, w, frame, thr) ==
    LET name == S.ws[w].name
        h == S.ws[w].h
        data == JSONparse(frame)
    IN IF ~data.ok THEN Emit(S, Ev("console.error", name, w, "", "", 0))
       ELSE LET S1 == Invoke(S, h, "onMessage", name, w, data.type, data.payload)
            IN IF thr = "onMessage" /\ "onMessage" \in Slots(h)
               THEN Emit(S1, Ev("console.error", name, w, "", "", 0))
               ELSE emitEvent(S1, list, name, data, w, thr)

\* The body of the try block runs until something throws into the catch
\* block: JSON.parse, or the onMessage handler (handleRealtimeMessage reads
\* fields of data.payload and runs the page's window.* hooks).
onmessage(S, list, w, frame, thr) ==
    LET name == S.ws[w].name
        h == S.ws[w].h
        data == JSONparse(frame)
        caught == Emit(S, Ev("console.error", name, w, "", "", 0))
    IN IF ~data.ok THEN caught
       ELSE IF data.type = "pong" THEN S
       ELSE LET S1 == Invoke(S, h, "onMessage", name, w, data.type, data.payload)
            IN IF thr = "onMessage" /\ "onMessage" \in Slots(h)
               THEN Emit(S1, Ev("console.error", name, w, "", "", 0))
               ELSE emitEvent(S1, list, name, data, w, thr)

FrameName(frame) == IF frame[1] = "json" THEN frame[2] ELSE "text"

FramePayload(frame) == IF frame[1] = "json" THEN frame[3] ELSE ""

OnMessage(w, frame, thr) ==
    /\ pendingClose = 0
    /\ ws[w].state = "OPEN"
    /\ thr # "none" => JSONparse(frame).ok /\ JSONparse(frame).type # "pong"
    /\ thr = "onMessage" => "onMessage" \in Slots(ws[w].h)
    /\ thr = "callback" => \E i \in 1..Len(subs) : subs[i] = JSONparse(frame).type
    /\ Commit(onmessage(Begin(Ev("message", ws[w].name, w, FrameName(frame), FramePayload(frame), 0)),
                        subs, w, frame, thr), 0)
    /\ UNCHANGED <<hidden, subs, isMerchant, calls, unloading>>

\* The server's close frame arrives: the closing handshake has started.
ServerClose(w, code) ==
    /\ pendingClose = 0
    /\ ws[w].state = "OPEN"
    /\ Commit([Begin(Ev("close frame", ws[w].name, w, "", "", code))
                 EXCEPT !.ws[w].state = "CLOSING", !.ws[w].code = code], 0)
    /\ UNCHANGED <<hidden, subs, isMerchant, calls, unloading>>

\* onerror that also stops the heartbeat of the name.
onerror_stopsHeartbeat(S, w) ==
    stopHeartbeat(Invoke(S, S.ws[w].h, "onError", S.ws[w].name, w, "", ""), S.ws[w].name)

onerror(S, w) == Invoke(S, S.ws[w].h, "onError", S.ws[w].name, w, "", "")

\* The connection fails: readyState CLOSED, the error event, and the
\* close event (code 1006) next in the same task.
OnError(w) ==
    /\ pendingClose = 0
    /\ ws[w].state \in {"CONNECTING", "OPEN", "CLOSING"}
    /\ Commit(onerror([Begin(Ev("error", ws[w].name, w, "", "", 0))
                         EXCEPT !.ws[w].state = "CLOSED", !.ws[w].code = AbnormalCode], w), w)
    /\ UNCHANGED <<hidden, subs, isMerchant, calls, unloading>>

Call(S, name, w, method) == Emit(S, Ev("call", name, w, method, "", 0))

\* onclose without the test of the close code.
onclose_noCodeTest(S, w, code) ==
    LET name == S.ws[w].name
        h == S.ws[w].h
        S1 == Invoke(stopHeartbeat(Call(S, name, w, "stopHeartbeat"), name),
                     h, "onDisconnect", name, w, "", "")
    IN scheduleReconnect(Call(S1, name, w, "scheduleReconnect"), name, h)

onclose(S, w, code) ==
    LET name == S.ws[w].name
        h == S.ws[w].h
        S1 == Invoke(stopHeartbeat(Call(S, name, w, "stopHeartbeat"), name),
                     h, "onDisconnect", name, w, "", "")
    IN IF code # IntentionalCode
       THEN scheduleReconnect(Call(S1, name, w, "scheduleReconnect"), name, h)
       ELSE S1

\* The close event: after the error event of a failed connection, or at
\* the end of a closing handshake.
OnClose(w) ==
    /\ \/ pendingClose = w
       \/ pendingClose = 0 /\ ws[w].state = "CLOSING" /\ ws[w].code \in Codes
    /\ Commit(onclose([Begin(Ev("close", ws[w].name, w, ws[w].by,
                                IF ws[w].opened THEN "opened" ELSE "", ws[w].code))
                         EXCEPT !.ws[w].state = "CLOSED"], w, ws[w].code), 0)
    /\ UNCHANGED <<hidden, subs, isMerchant, calls, unloading>>

\* --- timers

ReconnectTimer(r) ==
    /\ pendingClose = 0
    /\ BagIn(r, timeouts)
    /\ Commit(reconnectCallback([Begin(Ev("timeout", r.name, 0, "", "", r.attempts))
                                   EXCEPT !.timeouts = @ (-) SetToBag({r})], r), 0)
    /\ UNCHANGED <<hidden, subs, isMerchant, calls, unloading>>

\* The callback startHeartbeat gives setInterval; w and name are the ones
\* it captured.
heartbeatCallback(S, w) ==
    IF S.ws[w].state = "OPEN"
    THEN Emit(S, Ev("ws.send", S.ws[w].name, w, JSONstringify(PingData)[2], JSONstringify(PingData)[3], 0))
    ELSE stopHeartbeat(S, S.ws[w].name)

HeartbeatTick(w) ==
    /\ pendingClose = 0
    /\ intervals[w] > 0
    /\ Commit(heartbeatCallback(Begin(Ev("tick", ws[w].name, w, "", "", 0)), w), 0)
    /\ UNCHANGED <<hidden, subs, isMerchant, calls, unloading>>

\* --- page events

resumeHeartbeats(S) == resumeOver(S, <<"realtime", "merchant">>)

visibilitychange(S, isHidden) ==
    IF isHidden THEN pauseHeartbeats(S) ELSE resumeHeartbeats(S)

VisibilityChange ==
    /\ pendingClose = 0
    /\ hidden' = ~hidden
    /\ Commit(visibilitychange(Begin(Ev("visibilitychange", "", 0, IF hidden THEN "visible" ELSE "hidden", "", 0)),
                               ~hidden), 0)
    /\ UNCHANGED <<subs, isMerchant, calls, unloading>>

\* The 'beforeunload' listener: this.connections.forEach((ws, name) =>
\* this.disconnect(name)).
RECURSIVE disconnectOver(_, _)
disconnectOver(S, names) ==
    IF names = <<>> THEN S
    ELSE disconnectOver(IF S.connections[Head(names)] # 0
                        THEN disconnectBy(S, Head(names), "unload") ELSE S,
                        Tail(names))

beforeunload(S) == disconnectOver(S, <<"realtime", "merchant">>)

\* The page is about to be left. Tasks keep running until the document is
\* gone (and the page stays when the navigation is cancelled).
BeforeUnload ==
    /\ pendingClose = 0
    /\ ~unloading
    /\ unloading' = TRUE
    /\ Commit(beforeunload(Begin(Ev("beforeunload", "", 0, "", "", 0))), 0)
    /\ UNCHANGED <<hidden, subs, isMerchant, calls>>

\* The connection lifecycle: the calls, transport events and timers that
\* change the manager's state.
Next ==
    \/ \E name \in PageNames, url \in Urls : \E h \in FeedHandlers(name) :
          Connect(name, url, h) /\ UNCHANGED failures
    \/ \E name \in Names : Disconnect(name) /\ UNCHANGED failures
    \/ \E w \in WsIds : OnOpen(w) /\ UNCHANGED failures
    \/ \E w \in WsIds, code \in Codes : ServerClose(w, code) /\ UNCHANGED failures
    \/ \E w \in WsIds : OnError(w) /\ UNCHANGED failures
    \/ \E w \in WsIds : OnClose(w) /\ UNCHANGED failures
    \/ \E r \in BagToSet(timeouts) : ReconnectTimer(r) /\ UNCHANGED failures
    \/ \E w \in WsIds : HeartbeatTick(w) /\ UNCHANGED failures
    \/ VisibilityChange /\ UNCHANGED failures

Spec == Init /\ [][Next]_vars

\* Message traffic: send, subscribe and inbound frames, over connections
\* in every state of the registry and of the transport (absent, connecting,
\* open, closing, closed). None of the three changes a field of the manager,
\* so the timers and page events are left to Spec.
MsgNext ==
    \/ \E name \in PageNames, url \in Urls : \E h \in AnyHandlers(name) :
          Connect(name, url, h) /\ UNCHANGED failures
    \/ \E name \in Names : Disconnect(name) /\ UNCHANGED failures
    \/ \E w \in WsIds : OnOpen(w) /\ UNCHANGED failures
    \/ \E w \in WsIds, code \in Codes : ServerClose(w, code) /\ UNCHANGED failures
    \/ \E w \in WsIds : OnError(w) /\ UNCHANGED failures
    \/ \E w \in WsIds : OnClose(w) /\ UNCHANGED failures
    \/ \E name \in Names, data \in SendData : Send(name, data) /\ UNCHANGED failures
    \/ \E eventType \in SubTypes : Subscribe(eventType) /\ UNCHANGED failures
    \/ \E w \in WsIds, frame \in InFrames, thr \in Throwers :
          OnMessage(w, frame, thr) /\ UNCHANGED failures

MsgSpec == Init /\ [][MsgNext]_vars

\* Reconnection with backoff: the calls, transport events and reconnect
\* timers, observed by the count of closures in a row. A closure counts when
\* its code is not 1000 and the manager had not closed the transport; an
\* open, or a call of the page's code for the name, starts the count again.
Bump(f, name) == [f EXCEPT ![name] = IF @ > maxReconnectAttempts THEN @ ELSE @ + 1]

Reset(f, name) == [f EXCEPT ![name] = 0]

BackoffNext ==
    \/ \E name \in PageNames, url \in Urls : \E h \in FeedHandlers(name) :
          Connect(name, url, h) /\ failures' = Reset(failures, name)
    \/ \E name \in Names : Disconnect(name) /\ failures' = Reset(failures, name)
    \/ \E w \in WsIds : OnOpen(w) /\ failures' = Reset(failures, ws[w].name)
    \/ \E w \in WsIds, code \in Codes : ServerClose(w, code) /\ UNCHANGED failures
    \/ \E w \in WsIds : OnError(w) /\ UNCHANGED failures
    \/ \E w \in WsIds :
          /\ OnClose(w)
          /\ failures' = IF ws[w].code # IntentionalCode /\ ws[w].by = ""
                         THEN Bump(failures, ws[w].name) ELSE failures
    \/ \E r \in BagToSet(timeouts) : ReconnectTimer(r) /\ UNCHANGED failures

BackoffSpec == Init /\ [][BackoffNext]_vars

\* Page teardown: the calls, transport events and reconnect timers, and the
\* 'beforeunload' event.
TeardownNext ==
    \/ \E name \in PageNames, url \in Urls : \E h \in FeedHandlers(name) :
          Connect(name, url, h) /\ UNCHANGED failures
    \/ \E name \in Names : Disconnect(name) /\ UNCHANGED failures
    \/ \E w \in WsIds : OnOpen(w) /\ UNCHANGED failures
    \/ \E w \in WsIds, code \in Codes : ServerClose(w, code) /\ UNCHANGED failures
    \/ \E w \in WsIds : OnError(w) /\ UNCHANGED failures
    \/ \E w \in WsIds : OnClose(w) /\ UNCHANGED failures
    \/ \E r \in BagToSet(timeouts) : ReconnectTimer(r) /\ UNCHANGED failures
    \/ BeforeUnload /\ UNCHANGED failures

TeardownSpec == Init /\ [][TeardownNext]_vars

\* Two feeds side by side: the page of a merchant, on which init() connects
\* 'realtime' and 'merchant'. The calls, the transport events (a transport
\* closes because its connection fails or because the manager closed it),
\* the reconnect timers, and one data frame.
IndepFrames == {<<"json", "other", "p1">>}

IndepNext ==
    \/ \E name \in PageNames, url \in Urls : \E h \in FeedHandlers(name) :
          Connect(name, url, h) /\ UNCHANGED failures
    \/ \E name \in Names : Disconnect(name) /\ UNCHANGED failures
    \/ \E w \in WsIds : OnOpen(w) /\ UNCHANGED failures
    \/ \E w \in WsIds : OnError(w) /\ UNCHANGED failures
    \/ \E w \in WsIds : OnClose(w) /\ UNCHANGED failures
    \/ \E r \in BagToSet(timeouts) : ReconnectTimer(r) /\ UNCHANGED failures
    \/ \E name \in Names, data \in SendData : Send(name, data) /\ UNCHANGED failures
    \/ \E w \in WsIds, frame \in IndepFrames : OnMessage(w, frame, "none") /\ UNCHANGED failures

IndepSpec == InitPage(TRUE) /\ [][IndepNext]_vars

\* Reconnection in time: a reconnect timer that is due fires, and a
\* transport that is closing gets its events (a closing handshake ends in
\* the close event; a connection failed by close() gets error, then close).
ReconnectSpec ==
    /\ Init
    /\ [][BackoffNext]_vars
    /\ WF_vars(\E r \in BagToSet(timeouts) : ReconnectTimer(r) /\ UNCHANGED failures)
    /\ WF_vars(\E w \in WsIds :
                  /\ OnClose(w)
                  /\ failures' = IF ws[w].code # IntentionalCode /\ ws[w].by = ""
                                 THEN Bump(failures, ws[w].name) ELSE failures)
    /\ WF_vars(\E w \in WsIds : ws[w].state = "CLOSING" /\ OnError(w) /\ UNCHANGED failures)

\* ------------------------------------------------------------- throttle
\* TIMBUtils.throttle(func, limit) of utils.js (TIMBUtils.throttle of
\* timb-utils.js is the same code). Each call of throttle makes a closure
\* with its own inThrottle, undefined (falsy) at first.

Wrappers == 1..MaxWrappers

\* The limit each closure was made with.
Limits == [t \in Wrappers |-> t * 100]

Args == {"a1", "a2"}

\* What func does when it is invoked: it returns, it throws, or it calls
\* the throttled function again before it returns.
FuncBehaviours == {"returns", "throws", "reenters"}

\* The function throttle returns. T: [inThrottle, limitTimers, log]; depth 1
\* is the call func makes from inside. When func throws, the exception
\* leaves the function before inThrottle is set.
RECURSIVE throttled(_, _, _, _, _)
throttled(T, t, arg, does, depth) ==
    IF ~T.inThrottle[t]
    THEN LET T1 == Emit(T, Ev("func", "", t, arg, does, depth))
             T2 == IF does = "reenters" THEN throttled(T1, t, arg, "returns", depth + 1) ELSE T1
         IN IF does = "throws" THEN Emit(T2, Ev("throw", "", t, "", "", depth))
            ELSE Emit([T2 EXCEPT !.inThrottle[t] = TRUE, !.limitTimers[t] = @ + 1],
                      Ev("setTimeout", "", t, "", "", Limits[t]))
    ELSE T

ThrottledCall(t, arg, does) ==
    LET T == throttled([inThrottle |-> inThrottle, limitTimers |-> limitTimers,
                        log |-> <<Ev("throttled", "", t, arg, does, 0)>>],
                       t, arg, does, 0)
    IN /\ does # "returns" => ~inThrottle[t]
       /\ T.limitTimers[t] <= MaxLimitTimers
       /\ inThrottle' = T.inThrottle
       /\ limitTimers' = T.limitTimers
       /\ log' = T.log
       /\ window' = [window EXCEPT ![t] = @ \/ \E i \in 1..Len(T.log) : T.log[i].ev = "func"]
       /\ UNCHANGED <<ws, connections, messageHandlers, reconnectAttempts, heartbeatTimers,
                      intervals, timeouts, status, hidden, subs, pendingClose, failures,
                      isMerchant, calls, unloading>>

\* () => inThrottle = false
LimitTimer(t) ==
    /\ limitTimers[t] > 0
    /\ limitTimers' = [limitTimers EXCEPT ![t] = @ - 1]
    /\ inThrottle' = [inThrottle EXCEPT ![t] = FALSE]
    /\ window' = [window EXCEPT ![t] = FALSE]
    /\ log' = <<Ev("limit timer", "", t, "", "", Limits[t])>>
    /\ UNCHANGED <<ws, connections, messageHandlers, reconnectAttempts, heartbeatTimers,
                   intervals, timeouts, status, hidden, subs, pendingClose, failures,
                   isMerchant, calls, unloading>>

ThrottleNext ==
    \/ \E t \in Wrappers, arg \in Args, does \in FuncBehaviours : ThrottledCall(t, arg, does)
    \/ \E t \in Wrappers : LimitTimer(t)

ThrottleSpec == Init /\ [][ThrottleNext]_vars

\* ================================================================ claims

Events(kind) == {i \in 1..Len(log) : log[i].ev = kind}

PendingFor(name) == {r \in BagToSet(timeouts) : r.name = name}

\* A live transport: connecting or open.
Live(w) == ws[w].state \in {"CONNECTING", "OPEN"}

LiveFor(name) == {w \in WsIds : ws[w].name = name /\ Live(w)}

\* C1: for every name, whatever connect/disconnect calls, transport events
\* and reconnect-timer firings have happened, at most one transport created
\* for that name is live (connecting or open).
C1_AtMostOneLiveTransport ==
    \A name \in Names : Cardinality(LiveFor(name)) <= 1

\* A connection was replaced: the old transport, closed by the manager, still
\* awaits its close event while the new one is live.
C1_Witness ==
    \E w1, w2 \in WsIds :
        /\ w1 # w2
        /\ ws[w1].name = ws[w2].name
        /\ ws[w1].state = "CLOSING" /\ ws[w1].by # ""
        /\ Live(w2)
        /\ connections[ws[w2].name] = w2

\* C2: after N consecutive non-intentional closures of a name (no open in
\* between, N < maxReconnectAttempts) the N-th closure schedules a reconnect
\* with delay reconnectDelay * 2^(N-1).
C2_BackoffDoubles ==
    (/\ log[1].ev = "close"
     /\ log[1].num # IntentionalCode
     /\ log[1].arg = ""
     /\ failures[log[1].name] < maxReconnectAttempts)
    => \E i \in Events("setTimeout") :
          log[i].num = reconnectDelay * Pow2(failures[log[1].name] - 1)

\* C3: after the closure that follows maxReconnectAttempts failed reconnect
\* attempts in a row, no reconnect timer is pending for the name and the
\* status shows the failure.
C3_GivesUpAfterMax ==
    \A name \in Names :
        failures[name] > maxReconnectAttempts
        => PendingFor(name) = {} /\ status.cls = "disconnected"

\* C4: after disconnect(name) no reconnect timer is pending for the name
\* (a timer pending at the call has been cancelled).
C4_DisconnectCancelsTimer ==
    log[1].ev = "disconnect" => PendingFor(log[1].name) = {}

\* C5: the close event of a transport that a caller's disconnect(name)
\* closed never arms a reconnect timer.
C5_NoReconnectAfterIntentionalClose ==
    (log[1].ev = "close" /\ log[1].arg = "caller") => Events("setTimeout") = {}

\* The transports captured by the running intervals of name.
RunningFor(name) == {w \in WsIds : intervals[w] > 0 /\ ws[w].name = name}

Registered(name) == connections[name]

IsOpen(name) == Registered(name) # 0 /\ ws[Registered(name)].state = "OPEN"

\* The transports of name that are between open and closed: in a closing
\* handshake, or closed with the close event still to come.
Closing(name) ==
    {w \in WsIds : ws[w].name = name /\ (ws[w].state = "CLOSING" \/ w = pendingClose)}

\* C6: a heartbeat timer is running for a name if and only if the name's
\* transport is open. Read in the claim's favour: stated for the states in
\* which the page is visible (the spec pauses heartbeats of a hidden page)
\* and no transport of the name is between open and closed.
C6_HeartbeatIffOpen ==
    \A name \in Names :
        (~hidden /\ Closing(name) = {}) => (RunningFor(name) # {} <=> IsOpen(name))

\* C7: send(name, message) returns false and transmits nothing when the name
\* is absent or its transport is not open; on an open transport it transmits
\* the serialized message once and returns true; it changes no field of the
\* manager (nothing is queued).
C7_SendOnlyWhenOpen ==
    [][log'[1].ev = "send" =>
         LET name == log'[1].name
             w == connections[name]
             data == [type |-> log'[1].arg, payload |-> log'[1].aux]
         IN /\ IF w # 0 /\ ws[w].state = "OPEN"
               THEN /\ Len(log') = 3
                    /\ log'[2] = Ev("ws.send", name, w, JSONstringify(data)[2], JSONstringify(data)[3], 0)
                    /\ log'[3].ev = "return" /\ log'[3].arg = "true"
               ELSE /\ Len(log') = 2
                    /\ log'[2].ev = "return" /\ log'[2].arg = "false"
            /\ UNCHANGED <<ws, connections, messageHandlers, reconnectAttempts,
                           heartbeatTimers, intervals, timeouts, subs>>]_vars

\* send was called for a registered name whose transport was not open, and
\* returned false.
C7_Witness ==
    /\ log[1].ev = "send"
    /\ connections[log[1].name] # 0
    /\ ws[connections[log[1].name]].state \in {"CONNECTING", "CLOSING", "CLOSED"}
    /\ log[2].arg = "false"

\* C8: an inbound frame of type 'pong' invokes neither the connection's
\* on-message handler nor any subscription callback.
C8_PongIsConsumed ==
    (log[1].ev = "message" /\ log[1].arg = "pong")
    => Events("handler") = {} /\ Events("callback") = {}

\* A pong arrived on a connection that has an on-message handler, with a
\* subscription to the type 'pong' registered.
C8_Witness ==
    /\ log[1].ev = "message" /\ log[1].arg = "pong"
    /\ "onMessage" \in Slots(ws[log[1].ws].h)
    /\ \E i \in 1..Len(subs) : subs[i] = "pong"

\* C9: while a connection is open (and the page visible), each heartbeat
\* interval sends exactly one ping on its transport: exactly one interval
\* is running with a callback that captured the open transport.
C9_OnePingPerInterval ==
    \A w \in WsIds :
        (ws[w].state = "OPEN" /\ ~hidden)
        => intervals[w] = 1

\* The subscriptions a message of this type goes to, in registration order.
RECURSIVE MatchingFrom(_, _)
MatchingFrom(i, type) ==
    IF i > Len(subs) THEN <<>>
    ELSE (IF subs[i] = type THEN <<i>> ELSE <<>>) \o MatchingFrom(i + 1, type)

RECURSIVE CallbacksFrom(_)
CallbacksFrom(i) ==
    IF i > Len(log) THEN <<>>
    ELSE (IF log[i].ev = "callback" THEN <<log[i]>> ELSE <<>>) \o CallbacksFrom(i + 1)

\* C10: a decoded message that is not a pong invokes each callback subscribed
\* to its type exactly once with (payload, connection name), no other
\* callback, and the callbacks in the order of registration.
C10_SubscribersFireInOrder ==
    (log[1].ev = "message" /\ log[1].arg \notin {"pong", "text"})
    => LET want == MatchingFrom(1, log[1].arg)
           got == CallbacksFrom(1)
       IN /\ Len(got) = Len(want)
          /\ \A k \in 1..Len(want) :
                /\ got[k].num = want[k]
                /\ got[k].aux = log[1].aux
                /\ got[k].name = log[1].name

\* C11: on 'beforeunload' every connection of the registry is disconnected
\* with the intentional code, and afterwards no reconnect timer creates a
\* transport, for any name (a timer pending at teardown included).
C11_NoReconnectAfterTeardown ==
    /\ log[1].ev = "beforeunload" =>
          /\ \A name \in Names : connections[name] = 0
          /\ \A i \in Events("ws.close") : log[i].num = IntentionalCode
    /\ (unloading /\ log[1].ev = "timeout") => Events("new WebSocket") = {}

\* C12: after disconnect(name) on a registered name, the name has no entry in
\* the connection registry, the handler registry and the attempt counters,
\* no heartbeat timer is running for it, and close(1000) was called on its
\* transport; disconnect(name) on an absent name changes no field of the
\* manager and closes no transport.
C12_DisconnectFrame ==
    [][log'[1].ev = "disconnect" =>
         LET name == log'[1].name
             w == connections[name]
         IN IF w # 0
            THEN /\ connections'[name] = 0
                 /\ messageHandlers'[name] = Absent
                 /\ reconnectAttempts'[name] = NoEntry
                 /\ heartbeatTimers'[name] = 0
                 /\ \A v \in WsIds : ws[v].name = name => intervals'[v] = 0
                 /\ \E i \in 1..Len(log') :
                       log'[i].ev = "ws.close" /\ log'[i].ws = w /\ log'[i].num = IntentionalCode
            ELSE /\ Len(log') = 1
                 /\ UNCHANGED <<ws, connections, messageHandlers, reconnectAttempts,
                                heartbeatTimers, intervals, timeouts, status>>]_vars

\* The open connection of name was closed with a code other than 1000: the
\* transport had opened, the manager had not closed it, and no disconnect
\* had taken it out of the registry.
AbnormalClosure(name) ==
    /\ log[1].ev = "close" /\ log[1].name = name
    /\ log[1].aux = "opened" /\ log[1].arg = "" /\ log[1].num # IntentionalCode
    /\ connections[name] = log[1].ws

\* A reconnect timer of name has fired and created a transport.
Reconnected(name) ==
    /\ log[1].ev = "timeout" /\ log[1].name = name
    /\ \E i \in Events("new WebSocket") : log[i].name = name /\ connections[name] = log[i].ws

\* C13: the closure of an open connection with a code other than 1000 is
\* eventually followed by a reconnect timer creating a new transport for
\* the name (armed with the delay computed from the counter, which is 0
\* after an open), and whenever a transport opens the attempt counter of
\* its name is 0.
C13_ReconnectsAfterClosure ==
    /\ \A name \in Names : AbnormalClosure(name) ~> Reconnected(name)
    /\ [](\A name \in Names :
            AbnormalClosure(name) =>
                \E i \in Events("setTimeout") : log[i].name = name /\ log[i].num = reconnectDelay)
    /\ [](log[1].ev = "open" => reconnectAttempts[log[1].name] = 0)

\* An open connection failed and the first reconnect was scheduled.
C13_Witness ==
    \E name \in Names :
        /\ AbnormalClosure(name)
        /\ log[1].num = AbnormalCode
        /\ PendingFor(name) # {}

\* C14: when an open connection's transport closes with code 1000 (closed
\* by the caller or by the server), no heartbeat timer runs for it any
\* more, the transport is not in the connection registry, and no reconnect
\* is scheduled.
C14_IntentionalCloseGoesIdle ==
    (log[1].ev = "close" /\ log[1].num = IntentionalCode /\ log[1].aux = "opened")
    => /\ intervals[log[1].ws] = 0
       /\ connections[log[1].name] # log[1].ws
       /\ Events("setTimeout") = {}

C16_OpenResets ==
    log[1].ev = "open" =>
        LET name == log[1].name
            w == log[1].ws
        IN /\ reconnectAttempts[name] = 0
           /\ Len(log) >= 2 /\ log[2].ev = "setInterval" /\ log[2].ws = w
           /\ heartbeatTimers[name] = w /\ intervals[w] >= 1
           /\ IF "onConnect" \in Slots(ws[w].h)
              THEN Len(log) = 3 /\ log[3].ev = "handler" /\ log[3].arg = "onConnect"
              ELSE Len(log) = 2

\* A transport opened while a reconnect timer of an earlier failure of the
\* name was still pending, and its on-connect handler ran.
C16_Witness ==
    /\ log[1].ev = "open"
    /\ Len(log) = 3 /\ log[3].arg = "onConnect"
    /\ PendingFor(log[1].name) # {}

\* C17: every scheduleReconnect call that arms a timer uses the delay
\* reconnectDelay * 2^k, k being the attempt counter stored for the name at
\* the call (0 when none is stored), and the timer's callback sets the
\* counter to k + 1 before it calls connect.
C17_DelayFromCounter ==
    [][/\ \A i \in 1..Len(log') :
             log'[i].ev = "setTimeout" =>
                 LET name == log'[i].name
                     k == IF reconnectAttempts[name] = NoEntry THEN 0 ELSE reconnectAttempts[name]
                 IN /\ log'[i].num = reconnectDelay * (2 ^ k)
                    /\ \E r \in BagToSet(timeouts') : r.name = name /\ r.attempts = k
       /\ log'[1].ev = "timeout" =>
             LET name == log'[1].name
                 k == log'[1].num
             IN /\ \E r \in BagToSet(timeouts) : r.name = name /\ r.attempts = k
                /\ log'[2] = Ev("reconnectAttempts.set", name, 0, "", "", k + 1)
                /\ \A i \in 1..Len(log') : log'[i].ev \in {"ws.close", "new WebSocket"} => i > 2
                /\ connections[name] = 0 => reconnectAttempts'[name] = k + 1]_vars

\* A reconnect was scheduled with a stored counter of 1: the delay doubled.
C17_Witness ==
    \E i \in Events("setTimeout") :
        /\ log[i].num = reconnectDelay * 2
        /\ \E r \in BagToSet(timeouts) : r.attempts = 1

\* The decoded message of the task, when the task is an inbound frame that
\* decodes and is not a pong.
Dispatched == log[1].ev = "message" /\ log[1].arg \notin {"pong", "text"}

Subscribers(type) == {k \in 1..Len(subs) : subs[k] = type}

\* C18: for every decoded inbound frame that is not a pong, the connection's
\* on-message handler (if registered) is invoked with the message first, and
\* afterwards every subscription matching its type gets the message.
C18_HandlerThenBroadcast ==
    Dispatched =>
        /\ "onMessage" \in Slots(ws[log[1].ws].h) =>
               /\ Len(log) >= 2
               /\ log[2].ev = "handler" /\ log[2].arg = "onMessage" /\ log[2].aux = log[1].aux
        /\ \A i \in Events("callback") : \A j \in Events("handler") : j < i
        /\ \A k \in Subscribers(log[1].arg) : \E i \in Events("callback") : log[i].num = k

\* C19: when a callback throws while a message is dispatched (the
\* connection's on-message handler or a subscription callback), every
\* matching subscriber still gets the message.
C19_ThrowDoesNotAbortDispatch ==
    (Dispatched /\ (Events("console.error") # {} \/ Events("reported") # {}))
    => \A k \in Subscribers(log[1].arg) :
          \E i \in Events("callback") : log[i].num = k /\ log[i].aux = log[1].aux

\* C20: an inbound frame that fails to parse invokes neither the on-message
\* handler nor a subscription callback, does not close the transport, and
\* leaves the connection registry, the heartbeat timers, the attempt
\* counters and the pending reconnect timers unchanged.
C20_ParseFailureIsDropped ==
    [][(log'[1].ev = "message" /\ log'[1].arg = "text") =>
         /\ \A i \in 1..Len(log') : log'[i].ev \in {"message", "console.error"}
         /\ ws' = ws
         /\ UNCHANGED <<connections, messageHandlers, heartbeatTimers, intervals,
                        reconnectAttempts, timeouts>>]_vars

\* A frame that is not JSON arrived on a connection that has an on-message
\* handler, with a subscription registered.
C20_Witness ==
    /\ log[1].ev = "message" /\ log[1].arg = "text"
    /\ "onMessage" \in Slots(ws[log[1].ws].h)
    /\ subs # <<>>

\* C21: the error event of a transport invokes the on-error handler (if
\* registered) and nothing else of the manager: the connection registry,
\* the handler registry, the heartbeat timers, the attempt counters and the
\* pending reconnect timers are the same before and after it.
C21_ErrorChangesNothing ==
    [][log'[1].ev = "error" =>
         LET w == log'[1].ws
         IN /\ IF "onError" \in Slots(ws[w].h)
               THEN Len(log') = 2 /\ log'[2].ev = "handler" /\ log'[2].arg = "onError"
               ELSE Len(log') = 1
            /\ UNCHANGED <<connections, messageHandlers, heartbeatTimers, intervals,
                           reconnectAttempts, timeouts>>]_vars

\* An open, registered transport with a running heartbeat got the error
\* event and its on-error handler ran; the close event is still to come.
C21_Witness ==
    /\ log[1].ev = "error" /\ Len(log) = 2
    /\ pendingClose = log[1].ws
    /\ connections[log[1].name] = log[1].ws
    /\ heartbeatTimers[log[1].name] = log[1].ws

\* C22: when new WebSocket(url) throws inside connect(name, ...), the
\* on-error handler (if registered) is invoked, the status shows the
\* failure, the name is not in the connection registry, no transport is
\* created and no reconnect timer is armed.
C22_CreationFailure ==
    [][(log'[1].ev = "connect" /\ log'[1].arg = "malformed") =>
         LET name == log'[1].name
             h == log'[1].aux
             handled == {i \in 1..Len(log') : log'[i].ev = "handler" /\ log'[i].arg = "onError"}
         IN /\ Cardinality(handled) = IF "onError" \in Slots(h) THEN 1 ELSE 0
            /\ status'.cls = "disconnected"
            /\ connections'[name] = 0
            /\ \A i \in 1..Len(log') : log'[i].ev \notin {"new WebSocket", "setTimeout"}
            /\ timeouts' = timeouts]_vars

\* connect with a malformed url failed for a name that was registered (the
\* previous transport was torn down first) and whose handlers have onError.
C22_Witness ==
    /\ log[1].ev = "connect" /\ log[1].arg = "malformed"
    /\ Events("ws.close") # {}
    /\ \E i \in Events("handler") : log[i].arg = "onError"
    /\ connections[log[1].name] = 0

\* C23: a page-hidden event leaves no heartbeat timer running and leaves the
\* connection registry, the transports, the attempt counters and the
\* pending reconnect timers unchanged; a page-visible event leaves a
\* heartbeat timer running for exactly the names whose registered transport
\* is open (names with a transport in its closing handshake, whose timer
\* stops at the close event, are left aside).
C23_PauseAndResume ==
    [][log'[1].ev = "visibilitychange" =>
         IF log'[1].arg = "hidden"
         THEN /\ \A w \in WsIds : intervals'[w] = 0
              /\ \A name \in Names : heartbeatTimers'[name] = 0
              /\ UNCHANGED <<ws, connections, messageHandlers, reconnectAttempts, timeouts>>
         ELSE \A name \in Names :
                 LET w == connections'[name]
                 IN (\A v \in WsIds : ws'[v].name = name => ws'[v].state # "CLOSING")
                    => ((\E v \in WsIds : ws'[v].name = name /\ intervals'[v] > 0)
                        <=> (w # 0 /\ ws'[w].state = "OPEN"))]_vars

\* C24: when a heartbeat timer fires and the transport it was started for
\* is not open, no ping is sent and that timer is stopped; when the
\* transport is open one ping is sent on it.
C24_TickOnClosedTransport ==
    [][log'[1].ev = "tick" =>
         LET w == log'[1].ws
             pings == {i \in 1..Len(log') : log'[i].ev = "ws.send"}
         IN IF ws[w].state = "OPEN"
            THEN Cardinality(pings) = 1 /\ \A i \in pings : log'[i].ws = w
            ELSE pings = {} /\ intervals'[w] = intervals[w] - 1]_vars

\* C25: at most one heartbeat interval is running per name, and every
\* running interval is the one heartbeatTimers holds for its name.
C25_OneIntervalPerName ==
    \A w \in WsIds :
        intervals[w] > 0 => intervals[w] = 1 /\ heartbeatTimers[ws[w].name] = w

\* C26: the close event of a transport that has been replaced in the
\* registry (its name maps to a newer transport) does not stop the newer
\* transport's heartbeat timer, arms no reconnect timer, and leaves the
\* newer transport registered and as it was.
C26_StaleCloseIsIgnored ==
    [][(log'[1].ev = "close" /\ connections[log'[1].name] \notin {0, log'[1].ws}) =>
         LET new == connections[log'[1].name]
         IN /\ connections'[log'[1].name] = new
            /\ ws'[new] = ws[new]
            /\ heartbeatTimers' = heartbeatTimers
            /\ intervals'[new] = intervals[new]
            /\ timeouts' = timeouts]_vars

\* C27: at most one reconnect timer is pending per name.
C27_OneReconnectTimerPerName ==
    \A name \in Names :
        BagCardinality([r \in PendingFor(name) |-> CopiesIn(r, timeouts)]) <= 1

\* C30: the attempt counter stored for a name is an integer in
\* 0..maxReconnectAttempts, and the connection registry and the handler
\* registry have the same names.
C30_CounterRangeAndRegistries ==
    \A name \in Names :
        /\ reconnectAttempts[name] # NoEntry => reconnectAttempts[name] \in 0..maxReconnectAttempts
        /\ connections[name] # 0 <=> messageHandlers[name] # Absent

\* A reconnect timer stored a counter above 0 and registered a transport
\* (the name was not registered when it fired).
C30_Witness ==
    \E name \in Names :
        /\ reconnectAttempts[name] >= 1
        /\ connections[name] # 0 /\ messageHandlers[name] # Absent

\* The name a task is about: the name of the call, of the transport whose
\* event it is, or of the timer that fired.
TaskEvents == {"connect", "disconnect", "send", "open", "message", "close", "error", "timeout"}

\* C28: named connections are independent: connect(a, ...), disconnect(a),
\* send(a, ...) and the open, message, close and error events and
\* reconnect-timer firings of name a leave the registry entries, the
\* transports, the heartbeat timer and the attempt counter of every other
\* name b unchanged.
C28_NamesAreIndependent ==
    [][log'[1].ev \in TaskEvents =>
         \A b \in Names \ {log'[1].name} :
            /\ connections'[b] = connections[b]
            /\ messageHandlers'[b] = messageHandlers[b]
            /\ heartbeatTimers'[b] = heartbeatTimers[b]
            /\ reconnectAttempts'[b] = reconnectAttempts[b]
            /\ \A w \in WsIds : ws[w].name = b => ws'[w] = ws[w] /\ intervals'[w] = intervals[w]
            /\ \A r \in BagToSet(timeouts) \cup BagToSet(timeouts') :
                  r.name = b => CopiesIn(r, timeouts') = CopiesIn(r, timeouts)]_vars

\* The close event of a transport of one name was handled while the other
\* name was open with its heartbeat running, an attempt counter stored and
\* a reconnect timer of its own pending.
C28_Witness ==
    \E a, b \in Names :
        /\ a # b
        /\ log[1].ev = "close" /\ log[1].name = a
        /\ connections[b] # 0 /\ ws[connections[b]].state = "OPEN"
        /\ heartbeatTimers[b] = connections[b]
        /\ reconnectAttempts[b] = 0
        /\ PendingFor(b) # {}

\* C29: a function made by throttle(func, limit) invokes func at once, with
\* the arguments of the call, when no window is active, and drops the call
\* when a window is active; a window starts at each invocation of func and
\* ends when its limit timer fires, so func is invoked at most once per
\* window.
C29_ThrottleWindows ==
    [][log'[1].ev = "throttled" =>
         LET t == log'[1].ws
             invoked == {i \in 1..Len(log') : log'[i].ev = "func"}
         IN IF window[t]
            THEN invoked = {}
            ELSE /\ Cardinality(invoked) = 1
                 /\ \A i \in invoked : log'[i].ws = t /\ log'[i].arg = log'[1].arg]_vars

====
